---- MODULE Spec2Model ----
(***************************************************************************)
(* Callout master export: a bidirectional synchroniser between callouts    *)
(* in source notes and link-headed chunks in per-type master notes         *)
(* (src/main.js).                                                          *)
(*                                                                         *)
(* A text is the sequence of its lines as split at "\n" (always at least   *)
(* one line; the empty text is the one-line text <<EmptyLine>>).  A line   *)
(* is a record                                                             *)
(*    pre : the leading block-quote markers, "sp" for "> " and "ns" for    *)
(*          ">" directly followed by the content,                          *)
(*    k   : what follows the markers: "empty" (nothing), "ws" (only        *)
(*          white space), "text", "id" (^c), "md" ([a](b#^c)),             *)
(*          "wiki" ([[b#^c|a]]), "tag" ([!a]),                             *)
(*    a, b, c : the payload,                                               *)
(*    cr  : the line ends with "\r" (the text uses "\r\n").                *)
(***************************************************************************)
EXTENDS Integers, Sequences, FiniteSets, TLC

----------------------------------------------------------------------------
(* Lines *)

L(pre, k, a, b, c) == [pre |-> pre, k |-> k, a |-> a, b |-> b, c |-> c, cr |-> FALSE]

EmptyLine == L(<<>>, "empty", "", "", "")
WsLine == L(<<>>, "ws", "", "", "")
TextLine(s) == L(<<>>, "text", s, "", "")
IdLine(id) == L(<<>>, "id", "", "", id)
MdLink(display, rawPath, id) == L(<<>>, "md", display, rawPath, id)
WikiLink(display, rawPath, id) == L(<<>>, "wiki", display, rawPath, id)
Header(type) == L(<<"sp">>, "tag", type, "", "")
Q(line) == [line EXCEPT !.pre = <<"sp">> \o line.pre]
QNoSpace(line) == [line EXCEPT !.pre = <<"ns">> \o line.pre]
WithCR(line) == [line EXCEPT !.cr = TRUE]

NoType == "<none>"
NoId == "<null>"
NoLine == 0

\* String(l).trim() === ""
IsBlank(line) == line.pre = <<>> /\ line.k \in {"empty", "ws"}

\* String(l).trimStart().startsWith(">")
IsQuoted(line) == line.pre # <<>>

\* text.split(/\r?\n/)
Split(text) == [i \in 1..Len(text) |-> [text[i] EXCEPT !.cr = FALSE]]

\* lines.join("\n")
Join(lines) == IF lines = <<>> THEN <<EmptyLine>> ELSE lines

\* if (!out.endsWith("\n")) out += "\n"
EnsureTrailingNewline(text) ==
    IF Len(text) >= 2 /\ text[Len(text)] = EmptyLine THEN text ELSE Append(text, EmptyLine)

\* Array.prototype.splice(start, end - start, ...insert) with 1-based start
\* and exclusive end; start and the delete count are clamped as in JS.
Splice(lines, start, end, insert) ==
    LET s == IF start > Len(lines) + 1 THEN Len(lines) + 1 ELSE start
        want == IF end - start < 0 THEN 0 ELSE end - start
        cnt == IF want > Len(lines) - s + 1 THEN Len(lines) - s + 1 ELSE want
    IN SubSeq(lines, 1, s - 1) \o insert \o SubSeq(lines, s + cnt, Len(lines))

ToLower(s) == CASE s = "TODO" -> "todo" [] OTHER -> s

CALLOUT_TYPES == <<"todo", "questions">>

\* uniqLower(CALLOUT_TYPES)
trackedTypes == [i \in 1..Len(CALLOUT_TYPES) |-> ToLower(CALLOUT_TYPES[i])]

TrackedSet == {trackedTypes[i] : i \in 1..Len(trackedTypes)}

masterPathForType(type) == CASE type = "todo" -> "todo.md"
                             [] type = "questions" -> "questions.md"
                             [] OTHER -> "<nomaster>"

\* file.basename
basename(path) == CASE path = "a.md" -> "a"
                    [] path = "b c.md" -> "b c"
                    [] path = "d.md" -> "d"
                    [] OTHER -> path

\* encodeURI on the paths of the model
encodeURI(path) == CASE path = "b c.md" -> "b%20c.md" [] OTHER -> path

\* decodeURI on the raw link targets of the model
decodeURI(raw) == CASE raw = "b%20c.md" -> "b c.md" [] OTHER -> raw

\* normalizePath on the decoded link targets of the model
normalizePath(p) == CASE p = "/a.md" -> "a.md" [] OTHER -> p

parseCalloutStart(line) ==
    IF Len(line.pre) = 1 /\ line.k = "tag" THEN ToLower(line.a) ELSE NoType

unquoteLine(line) == IF line.pre # <<>> THEN [line EXCEPT !.pre = Tail(line.pre)] ELSE line

quoteBodyLines(bodyLines) ==
    [i \in 1..Len(bodyLines) |->
        IF IsBlank(bodyLines[i]) THEN QNoSpace(EmptyLine) ELSE Q(bodyLines[i])]

RECURSIVE trimTrailingBlankLines(_)
trimTrailingBlankLines(lines) ==
    IF lines # <<>> /\ IsBlank(lines[Len(lines)])
    THEN trimTrailingBlankLines(SubSeq(lines, 1, Len(lines) - 1))
    ELSE lines

parseBlockId(line) == IF line.pre = <<>> /\ line.k = "id" THEN line.c ELSE NoId

----------------------------------------------------------------------------
(* Callout parser *)

RECURSIVE QuoteEnd(_, _)
\* while (j < lines.length && lines[j] is a block-quote line) j++
QuoteEnd(lines, j) ==
    IF j <= Len(lines) /\ IsQuoted(lines[j]) THEN QuoteEnd(lines, j + 1) ELSE j

RECURSIVE SkipBlank(_, _)
\* while (k < lines.length && lines[k] is blank) k++
SkipBlank(lines, k) ==
    IF k <= Len(lines) /\ IsBlank(lines[k]) THEN SkipBlank(lines, k + 1) ELSE k

\* generateId(): the n-th identifier this parse draws; gen is the sequence of
\* values the random generator returns.
generateId(gen, n) == gen[((n - 1) % Len(gen)) + 1]

\* Ensure blank line before ^id: lines.splice(insertAt, 0, ""); insertAt++
InsertBlankBefore(lines, quoteEndLine) ==
    IF quoteEndLine > Len(lines) \/ ~IsBlank(lines[quoteEndLine])
    THEN [lines |-> Splice(lines, quoteEndLine, quoteEndLine, <<EmptyLine>>), at |-> quoteEndLine + 1]
    ELSE [lines |-> lines, at |-> quoteEndLine]

\* lines.splice(insertAt, 0, `^${blockId}`); idLine = insertAt
InsertIdLine(r, blockId) ==
    [lines |-> Splice(r.lines, r.at, r.at, <<IdLine(blockId)>>), idLine |-> r.at]

\* Ensure blank line after ^id
InsertBlankAfter(r) ==
    IF r.idLine + 1 > Len(r.lines) \/ ~IsBlank(r.lines[r.idLine + 1])
    THEN [r EXCEPT !.lines = Splice(r.lines, r.idLine + 1, r.idLine + 1, <<EmptyLine>>)]
    ELSE r

\* The splices that insert (blank) ^id (blank) at the end of the quote.
\* Returns the new lines and the position of the identifier line.
InsertId(lines, quoteEndLine, blockId) ==
    InsertBlankAfter(InsertIdLine(InsertBlankBefore(lines, quoteEndLine), blockId))

\* body.push(unquoteLine(lines[j])) for the quoted lines; trimmed when pushed
BodyOf(lines, startLine, quoteEndLine) ==
    trimTrailingBlankLines(
        [n \in 1..(quoteEndLine - startLine - 1) |-> unquoteLine(lines[startLine + n])])

RECURSIVE ScanCallouts(_, _, _, _, _, _, _)

\* callouts.push(...) after an identifier was inserted; i = idLine
PushInserted(ins, c, callouts, tracked, autoInsertIds, gen, used) ==
    ScanCallouts(ins.lines, ins.idLine + 1,
                 Append(callouts, [c EXCEPT !.idLine = ins.idLine]),
                 tracked, autoInsertIds, gen, used + 1)

\* One tracked callout starting at line i, whose quote ends before
\* quoteEndLine and whose first non-blank line after it is line k.
ScanCallout(lines, i, type, quoteEndLine, k, callouts, tracked, autoInsertIds, gen, used) ==
    LET found == IF k <= Len(lines) THEN parseBlockId(lines[k]) ELSE NoId
    IN IF found = NoId /\ autoInsertIds
       THEN PushInserted(InsertId(lines, quoteEndLine, generateId(gen, used + 1)),
                         [type |-> type, blockId |-> generateId(gen, used + 1),
                          bodyLines |-> BodyOf(lines, i, quoteEndLine),
                          startLine |-> i, quoteEndLine |-> quoteEndLine, idLine |-> NoLine],
                         callouts, tracked, autoInsertIds, gen, used)
       ELSE ScanCallouts(lines, IF found # NoId THEN k + 1 ELSE quoteEndLine,
                         Append(callouts,
                                [type |-> type, blockId |-> found,
                                 bodyLines |-> BodyOf(lines, i, quoteEndLine),
                                 startLine |-> i, quoteEndLine |-> quoteEndLine,
                                 idLine |-> IF found # NoId THEN k ELSE NoLine]),
                         tracked, autoInsertIds, gen, used)

\* Look for block id after the callout, allowing blank lines.
ScanQuote(lines, i, type, quoteEndLine, callouts, tracked, autoInsertIds, gen, used) ==
    ScanCallout(lines, i, type, quoteEndLine, SkipBlank(lines, quoteEndLine),
                callouts, tracked, autoInsertIds, gen, used)

\* The for loop of extractTrackedCallouts from line i on; used counts the
\* identifiers generated so far.
ScanCallouts(lines, i, callouts, tracked, autoInsertIds, gen, used) ==
    IF i > Len(lines) THEN [lines |-> lines, callouts |-> callouts]
    ELSE IF parseCalloutStart(lines[i]) \notin tracked
    THEN ScanCallouts(lines, i + 1, callouts, tracked, autoInsertIds, gen, used)
    ELSE ScanQuote(lines, i, parseCalloutStart(lines[i]), QuoteEnd(lines, i + 1),
                   callouts, tracked, autoInsertIds, gen, used)

\* return { text: lines.join("\n"), callouts }
JoinResult(r) == [text |-> Join(r.lines), callouts |-> r.callouts]

\* extractTrackedCallouts(text, trackedTypes, {autoInsertIds}); positions are
\* 1-based, quoteEndLine is the first line after the block quote.
extractTrackedCallouts(text, tracked, autoInsertIds, gen) ==
    JoinResult(ScanCallouts(Split(text), 1, <<>>, tracked, autoInsertIds, gen, 0))

----------------------------------------------------------------------------
(* Master chunks *)

NoHead == [display |-> "", path |-> "<nopath>", blockId |-> NoId]

parseMasterLinkLine(line) ==
    IF line.pre = <<>> /\ line.k \in {"md", "wiki"}
    THEN [display |-> line.a, path |-> normalizePath(decodeURI(line.b)), blockId |-> line.c]
    ELSE NoHead

IsLinkLine(line) == parseMasterLinkLine(line) # NoHead

RECURSIVE ChunkEnd(_, _)
\* while (j < lines.length) { if (parseMasterLinkLine(lines[j])) break; j++ }
ChunkEnd(lines, j) ==
    IF j <= Len(lines) /\ ~IsLinkLine(lines[j]) THEN ChunkEnd(lines, j + 1) ELSE j

RECURSIVE ScanChunks(_, _, _)
ScanChunks(lines, i, chunks) ==
    IF i > Len(lines) THEN chunks
    ELSE IF ~IsLinkLine(lines[i]) THEN ScanChunks(lines, i + 1, chunks)
    ELSE LET head == parseMasterLinkLine(lines[i])
             j == ChunkEnd(lines, i + 1)
             ch == [start |-> i, end |-> j, display |-> head.display,
                    sourcePath |-> head.path, blockId |-> head.blockId,
                    bodyLines |-> trimTrailingBlankLines(SubSeq(lines, i + 1, j - 1))]
         IN ScanChunks(lines, j, Append(chunks, ch))

ParseLines(lines) == [lines |-> lines, chunks |-> ScanChunks(lines, 1, <<>>)]

\* parseMasterChunks(text): start is the header line, end is exclusive.
parseMasterChunks(text) == ParseLines(Split(text))

buildMasterChunkLines(display, sourcePath, blockId, bodyLines) ==
    <<MdLink(display, encodeURI(sourcePath), blockId)>> \o bodyLines \o <<EmptyLine>>

----------------------------------------------------------------------------
(* Line-range operations *)

\* the operations applied in the order they were computed
UnsortedOps(ops) == ops

RECURSIVE SortOps(_)
\* ops.sort((a, b) => b.start - a.start): stable, descending start
SortOps(ops) ==
    IF ops = <<>> THEN <<>>
    ELSE LET m == CHOOSE i \in 1..Len(ops) :
                    /\ \A j \in 1..Len(ops) : ops[j].start <= ops[i].start
                    /\ \A j \in 1..(i - 1) : ops[j].start < ops[i].start
             rest == SubSeq(ops, 1, m - 1) \o SubSeq(ops, m + 1, Len(ops))
         IN <<ops[m]>> \o SortOps(rest)

RECURSIVE ApplyOps(_, _)
\* for (const op of ops) lines.splice(op.start, op.end - op.start, ...op.insert)
ApplyOps(lines, ops) ==
    IF ops = <<>> THEN lines
    ELSE ApplyOps(Splice(lines, ops[1].start, ops[1].end, ops[1].insert), Tail(ops))

RECURSIVE SelectSeqBy(_, _)
SelectSeqBy(seq, keep) ==
    IF seq = <<>> THEN <<>>
    ELSE (IF keep[1] THEN <<seq[1]>> ELSE <<>>)
         \o SelectSeqBy(Tail(seq), Tail(keep))

RECURSIVE Flatten(_)
Flatten(seqs) == IF seqs = <<>> THEN <<>> ELSE seqs[1] \o Flatten(Tail(seqs))

\* desiredById.get(id): the last callout with this id, position 0 if none
LastWithId(callouts, id) ==
    IF \E i \in 1..Len(callouts) : callouts[i].blockId = id
    THEN CHOOSE i \in 1..Len(callouts) :
            /\ callouts[i].blockId = id
            /\ \A j \in (i + 1)..Len(callouts) : callouts[j].blockId # id
    ELSE 0

----------------------------------------------------------------------------
(* Reconciler: the text each pass computes *)

\* chunks.filter((c) => c.sourcePath === path)
ChunksOf(chunks, path) ==
    SelectSeqBy(chunks, [i \in 1..Len(chunks) |-> chunks[i].sourcePath = path])

\* Replace or remove existing chunks for this file
ReplaceOp(ch, d, sourcePath, calloutsOfType) ==
    IF d = 0 THEN [start |-> ch.start, end |-> ch.end, insert |-> <<>>]
    ELSE [start |-> ch.start, end |-> ch.end,
          insert |-> buildMasterChunkLines(basename(sourcePath), sourcePath,
                         calloutsOfType[d].blockId, calloutsOfType[d].bodyLines)]

ReplaceOps(existing, sourcePath, calloutsOfType) ==
    [i \in 1..Len(existing) |->
        ReplaceOp(existing[i], LastWithId(calloutsOfType, existing[i].blockId),
                  sourcePath, calloutsOfType)]

\* Add new chunks that don't exist yet
Additions(existing, sourcePath, calloutsOfType) ==
    Flatten([i \in 1..Len(calloutsOfType) |->
        IF calloutsOfType[i].blockId \notin {existing[j].blockId : j \in 1..Len(existing)}
        THEN buildMasterChunkLines(basename(sourcePath), sourcePath,
                 calloutsOfType[i].blockId, calloutsOfType[i].bodyLines)
        ELSE <<>>])

\* lines.push("") if the last line is not blank; lines.push(...additions);
\* join and end with a newline
AppendAdditions(lines, additions) ==
    EnsureTrailingNewline(Join(
        IF additions = <<>> THEN lines
        ELSE (IF lines # <<>> /\ ~IsBlank(lines[Len(lines)])
              THEN Append(lines, EmptyLine) ELSE lines) \o additions))

UpdateExisting(lines, existing, sourcePath, calloutsOfType) ==
    AppendAdditions(ApplyOps(lines, SortOps(ReplaceOps(existing, sourcePath, calloutsOfType))),
                    Additions(existing, sourcePath, calloutsOfType))

UpdateParsed(parsed, sourcePath, calloutsOfType) ==
    UpdateExisting(parsed.lines, ChunksOf(parsed.chunks, sourcePath), sourcePath, calloutsOfType)

\* updateMasterForSourceFile: the new master text (before writeFileIfChanged)
updateMasterText(masterText, sourcePath, calloutsOfType) ==
    UpdateParsed(parseMasterChunks(masterText), sourcePath, calloutsOfType)

\* Replace everything between the callout header line and the end of the blockquote
BodyOp(c, e) ==
    [start |-> c.startLine + 1, end |-> c.quoteEndLine, insert |-> quoteBodyLines(e.bodyLines)]

\* for (const e of entries) { const c = byId.get(e.blockId); if (!c) continue; ops.push(...) }
BodyOps(callouts, matched) ==
    [i \in 1..Len(matched) |-> BodyOp(callouts[LastWithId(callouts, matched[i].blockId)], matched[i])]

Matched(callouts, entries) ==
    SelectSeqBy(entries, [i \in 1..Len(entries) |-> LastWithId(callouts, entries[i].blockId) # 0])

ApplyEdits(ex, entries) ==
    Join(ApplyOps(Split(ex.text), SortOps(BodyOps(ex.callouts, Matched(ex.callouts, entries)))))

\* applyMasterEditsToSource(sourceText, type, entries)
applyMasterEditsToSource(sourceText, type, entries) ==
    ApplyEdits(extractTrackedCallouts(sourceText, {type}, FALSE, <<NoId>>), entries)

\* a removal that leaves the blank lines after the chunk's body behind
RemoveOpsBodyOnly(mine) ==
    [i \in 1..Len(mine) |->
        [start |-> mine[i].start, end |-> mine[i].start + 1 + Len(mine[i].bodyLines),
         insert |-> <<>>]]

\* chunks.filter(...).map((ch) => ({ start: ch.start, end: ch.end, insert: [] }))
RemoveOps(mine) ==
    [i \in 1..Len(mine) |-> [start |-> mine[i].start, end |-> mine[i].end, insert |-> <<>>]]

DeleteChunks(masterText, lines, mine) ==
    IF mine = <<>> THEN masterText
    ELSE EnsureTrailingNewline(Join(ApplyOps(lines, SortOps(RemoveOps(mine)))))

DeleteParsed(masterText, parsed, deletedPath) ==
    DeleteChunks(masterText, parsed.lines, ChunksOf(parsed.chunks, deletedPath))

\* onDelete: the new text of one master, or the old text if no chunk matches
deleteMasterText(masterText, deletedPath) ==
    DeleteParsed(masterText, parseMasterChunks(masterText), deletedPath)

\* a rename that keeps the display name of the old link
RenameOpsOldDisplay(mine, newPath) ==
    [i \in 1..Len(mine) |->
        [start |-> mine[i].start, end |-> mine[i].end,
         insert |-> buildMasterChunkLines(mine[i].display, newPath,
                        mine[i].blockId, mine[i].bodyLines)]]

RenameOps(mine, newPath) ==
    [i \in 1..Len(mine) |->
        [start |-> mine[i].start, end |-> mine[i].end,
         insert |-> buildMasterChunkLines(basename(newPath), newPath,
                        mine[i].blockId, mine[i].bodyLines)]]

RenameChunks(masterText, lines, mine, newPath) ==
    IF mine = <<>> THEN masterText
    ELSE EnsureTrailingNewline(Join(ApplyOps(lines, SortOps(RenameOps(mine, newPath)))))

RenameParsed(masterText, parsed, oldPath, newPath) ==
    RenameChunks(masterText, parsed.lines, ChunksOf(parsed.chunks, oldPath), newPath)

\* onRename: the new text of one master, or the old text if no chunk matches
renameMasterText(masterText, oldPath, newPath) ==
    RenameParsed(masterText, parseMasterChunks(masterText), oldPath, newPath)

----------------------------------------------------------------------------
(* The vault and whole reconciliation passes *)

VARIABLES
    vault,            \* path -> text of the markdown file, Absent if there is none
    last,             \* the last pass that ran to completion, with the vault before it
    timers,           \* the live timeouts of the window: [id, kind, path, left]
    debounceTimers,   \* this._debounceTimers: path -> timeout id, 0 if no entry
    suppressedPaths,  \* this._suppressedPaths
    events,           \* 'modify' notifications the vault has not delivered yet
    tasks,            \* the reconciliation passes in flight, each at an await
    edits,            \* the number of user edits so far
    dirty,            \* the paths whose text is a user edit that no pass has read yet
    sinceModify,      \* path -> ms since its last accepted notification
    pendingMods,      \* path -> accepted notifications since its last pass started
    sinceWrite,       \* path -> ms since the last engine write to it completed
    writing,          \* path -> engine writes to it between add() and completion
    loaded,           \* the plugin is loaded: its listeners are attached
    ev                \* what the last step of the controller did

Absent == <<>>

SourcePaths == {"a.md", "b c.md", "d.md"}
MasterPaths == {masterPathForType(trackedTypes[i]) : i \in 1..Len(trackedTypes)}
Paths == SourcePaths \cup MasterPaths

\* getAbstractFileByPath(path) instanceof TFile
IsFile(v, path) == path \in DOMAIN v /\ v[path] # Absent

\* writeFileIfChanged on the state st = [vault, wrote] of a pass that runs
\* alone: wrote collects the paths vault.modify was called on.
writeFileIfChanged(st, path, newText) ==
    IF st.vault[path] = newText THEN st
    ELSE [vault |-> [st.vault EXCEPT ![path] = newText], wrote |-> st.wrote \cup {path}]

\* callouts.filter(c => c.type === type)
OfType(callouts, type) ==
    SelectSeqBy(callouts, [i \in 1..Len(callouts) |-> callouts[i].type = type])

\* updateMasterForSourceFile(type, sourceFile, calloutsOfType)
updateMasterForSourceFile(st, type, sourcePath, calloutsOfType) ==
    IF ~IsFile(st.vault, masterPathForType(type)) THEN st
    ELSE writeFileIfChanged(st, masterPathForType(type),
             updateMasterText(st.vault[masterPathForType(type)], sourcePath, calloutsOfType))

RECURSIVE UpdateMasters(_, _, _, _)
\* for (const [type, list] of byType.entries()) await updateMasterForSourceFile(...)
UpdateMasters(st, types, sourcePath, callouts) ==
    IF types = <<>> THEN st
    ELSE UpdateMasters(
             updateMasterForSourceFile(st, types[1], sourcePath, OfType(callouts, types[1])),
             Tail(types), sourcePath, callouts)

\* if (patched !== raw) await this.writeFileIfChanged(file, patched)
WritePatched(st, path, patched) ==
    IF patched # st.vault[path] THEN writeFileIfChanged(st, path, patched) ELSE st

SyncExtracted(v, path, ex) ==
    UpdateMasters(WritePatched([vault |-> v, wrote |-> {}], path, ex.text),
                  trackedTypes, path, ex.callouts)

\* syncFromSource(file), run with nothing interleaved
syncFromSource(v, path, gen) ==
    SyncExtracted(v, path, extractTrackedCallouts(v[path], TrackedSet, TRUE, gen))

RECURSIVE SourceOrder(_, _)
\* the keys of bySource in insertion order: the source paths in the order of
\* their first chunk
SourceOrder(chunks, seen) ==
    IF chunks = <<>> THEN <<>>
    ELSE IF chunks[1].sourcePath \in seen THEN SourceOrder(Tail(chunks), seen)
    ELSE <<chunks[1].sourcePath>> \o SourceOrder(Tail(chunks), seen \cup {chunks[1].sourcePath})

\* one iteration of the loop over bySource
ApplyToSource(st, type, sourcePath, entries) ==
    IF ~IsFile(st.vault, sourcePath) THEN st
    ELSE WritePatched(st, sourcePath,
             applyMasterEditsToSource(st.vault[sourcePath], type, entries))

RECURSIVE ApplyToSources(_, _, _, _)
ApplyToSources(st, type, paths, chunks) ==
    IF paths = <<>> THEN st
    ELSE ApplyToSources(ApplyToSource(st, type, paths[1], ChunksOf(chunks, paths[1])),
                        type, Tail(paths), chunks)

SyncChunks(v, type, chunks) ==
    ApplyToSources([vault |-> v, wrote |-> {}], type, SourceOrder(chunks, {}), chunks)

\* syncFromMaster(type, masterFile), run with nothing interleaved
syncFromMaster(v, type) ==
    SyncChunks(v, type, parseMasterChunks(v[masterPathForType(type)]).chunks)

\* gathered.get(c.type).push({display, sourcePath, blockId, bodyLines})
EntriesOf(path, callouts) ==
    [i \in 1..Len(callouts) |->
        [type |-> callouts[i].type, display |-> basename(path), sourcePath |-> path,
         blockId |-> callouts[i].blockId, bodyLines |-> callouts[i].bodyLines]]

\* the state of a rebuild: the vault, the paths written, the entries gathered
GatherExtracted(g, path, ex) ==
    [st |-> WritePatched(g.st, path, ex.text),
     entries |-> g.entries \o EntriesOf(path, ex.callouts)]

\* one iteration of the loop of rebuildAllMasters over the markdown files
GatherFile(g, path, gen) ==
    IF ~IsFile(g.st.vault, path) THEN g
    ELSE GatherExtracted(g, path,
             extractTrackedCallouts(g.st.vault[path], TrackedSet, TRUE, gen))

RECURSIVE GatherFiles(_, _, _)
GatherFiles(g, paths, gen) ==
    IF paths = <<>> THEN g
    ELSE GatherFiles(GatherFile(g, paths[1], gen), Tail(paths), gen)

\* the place of a path and of a block id in the order of localeCompare
PathRank(path) == CASE path = "a.md" -> 1 [] path = "b c.md" -> 2 [] OTHER -> 3
IdRank(id) == CASE id = "i1" -> 1 [] id = "i2" -> 2 [] id = "i3" -> 3 [] OTHER -> 4

\* (a.sourcePath + a.blockId).localeCompare(b.sourcePath + b.blockId) < 0,
\* on the paths of the model, none of which is a prefix of another
KeyBefore(a, b) ==
    \/ PathRank(a.sourcePath) < PathRank(b.sourcePath)
    \/ /\ PathRank(a.sourcePath) = PathRank(b.sourcePath)
       /\ IdRank(a.blockId) < IdRank(b.blockId)

RECURSIVE SortEntries(_)
\* entries.sort(...): stable, ascending
SortEntries(entries) ==
    IF entries = <<>> THEN <<>>
    ELSE LET m == CHOOSE i \in 1..Len(entries) :
                    /\ \A j \in 1..Len(entries) : ~KeyBefore(entries[j], entries[i])
                    /\ \A j \in 1..(i - 1) : KeyBefore(entries[i], entries[j])
             rest == SubSeq(entries, 1, m - 1) \o SubSeq(entries, m + 1, Len(entries))
         IN <<entries[m]>> \o SortEntries(rest)

\* for (const e of entries) lines.push(...buildMasterChunkLines(e))
EntryLines(entries) ==
    Flatten([i \in 1..Len(entries) |->
                buildMasterChunkLines(entries[i].display, entries[i].sourcePath,
                                      entries[i].blockId, entries[i].bodyLines)])

\* the text rebuildAllMasters writes to the master of one type
rebuiltMasterText(entries, type) ==
    EnsureTrailingNewline(Join(EntryLines(SortEntries(OfType(entries, type)))))

\* one iteration of the loop of rebuildAllMasters over the types
WriteRebuilt(st, entries, type) ==
    IF ~IsFile(st.vault, masterPathForType(type)) THEN st
    ELSE writeFileIfChanged(st, masterPathForType(type), rebuiltMasterText(entries, type))

RECURSIVE WriteMasters(_, _, _)
WriteMasters(st, entries, types) ==
    IF types = <<>> THEN st
    ELSE WriteMasters(WriteRebuilt(st, entries, types[1]), entries, Tail(types))

RebuildGathered(g) == WriteMasters(g.st, g.entries, trackedTypes)

\* getMarkdownFiles() without the masters, in the order of the vault
MarkdownFiles == <<"a.md", "b c.md", "d.md">>

\* rebuildAllMasters(), run with nothing interleaved
rebuildAllMasters(v, gen) ==
    RebuildGathered(GatherFiles([st |-> [vault |-> v, wrote |-> {}], entries |-> <<>>],
                                MarkdownFiles, gen))

\* one iteration of the loop of onRename over the masters
RenameInMaster(st, masterPath, oldPath, newPath) ==
    IF ~IsFile(st.vault, masterPath) THEN st
    ELSE writeFileIfChanged(st, masterPath,
             renameMasterText(st.vault[masterPath], oldPath, newPath))

RECURSIVE RenameInMasters(_, _, _, _)
RenameInMasters(st, types, oldPath, newPath) ==
    IF types = <<>> THEN st
    ELSE RenameInMasters(RenameInMaster(st, masterPathForType(types[1]), oldPath, newPath),
                         Tail(types), oldPath, newPath)

\* onRename(file, oldPath), run with nothing interleaved, on the vault in
\* which the file already has its new path
onRename(v, oldPath, newPath) ==
    RenameInMasters([vault |-> v, wrote |-> {}], trackedTypes, oldPath, newPath)

\* the vault after the user has renamed a file
Moved(v, oldPath, newPath) == [v EXCEPT ![newPath] = v[oldPath], ![oldPath] = Absent]

\* one iteration of the loop of onDelete over the masters
DeleteFromMaster(st, masterPath, deletedPath) ==
    IF ~IsFile(st.vault, masterPath) THEN st
    ELSE writeFileIfChanged(st, masterPath, deleteMasterText(st.vault[masterPath], deletedPath))

RECURSIVE DeleteFromMasters(_, _, _)
DeleteFromMasters(st, types, deletedPath) ==
    IF types = <<>> THEN st
    ELSE DeleteFromMasters(DeleteFromMaster(st, masterPathForType(types[1]), deletedPath),
                           Tail(types), deletedPath)

\* onDelete(deletedPath), run with nothing interleaved
onDelete(v, deletedPath) == DeleteFromMasters([vault |-> v, wrote |-> {}], trackedTypes, deletedPath)

----------------------------------------------------------------------------
(* Documents the passes are run on *)

X == TextLine("x")
Y == TextLine("y")
Z == TextLine("z")
P == TextLine("p")
LinkB == MdLink("b c", "b%20c.md", "i2")

\* a callout block: header, quoted body, then (blank, ^id) if it has an id,
\* and a blank line
Callout(type, body, id) ==
    <<Header(type)>> \o body
    \o (IF id = NoId THEN <<>> ELSE <<EmptyLine, IdLine(id)>>) \o <<EmptyLine>>

CRLF(text) == [i \in 1..Len(text) |-> IF i < Len(text) THEN WithCR(text[i]) ELSE text[i]]

SourceTextsA ==
    { <<P, EmptyLine>>,
      <<Header("todo"), Q(X)>>,
      <<Header("todo"), Q(X), P, EmptyLine>>,
      Callout("todo", <<Q(X)>>, NoId),
      Callout("TODO", <<QNoSpace(X), Q(Y)>>, "i1"),
      Callout("todo", <<Q(X), Q(Y), Q(Z)>>, "i1") \o <<P, EmptyLine>>,
      Callout("todo", <<Q(X), Q(LinkB), Q(Y)>>, "i1"),
      Callout("todo", <<Q(X), QNoSpace(EmptyLine), Q(Y), QNoSpace(EmptyLine)>>, "i1"),
      Callout("todo", <<Q(X), Q(WsLine), Q(Y)>>, "i1"),
      Callout("todo", <<Q(X)>>, "i1") \o Callout("todo", <<Q(Y)>>, "i2"),
      Callout("todo", <<Q(X)>>, "i1") \o Callout("todo", <<Q(Y)>>, "i1"),
      Callout("todo", <<Q(X)>>, NoId) \o Callout("questions", <<Q(Y)>>, NoId),
      Callout("questions", <<Q(X)>>, "i1") \o Callout("todo", <<>>, "i2"),
      Callout("note", <<Q(X)>>, "i1") \o Callout("todo", <<Q(Y)>>, "i2"),
      CRLF(Callout("todo", <<Q(X)>>, "i1")) }

SourceTextsB ==
    { Absent,
      Callout("todo", <<Q(Z)>>, "i2"),
      Callout("todo", <<Q(Z), Q(Z)>>, "i1") \o Callout("questions", <<Q(Z)>>, "i2") }

Chunk(path, id, body) == buildMasterChunkLines(basename(path), path, id, body)

MasterTexts ==
    { <<EmptyLine>>,
      Chunk("a.md", "i1", <<Z>>),
      Chunk("a.md", "i1", <<>>) \o Chunk("a.md", "i1", <<Z>>),
      Chunk("b c.md", "i2", <<P>>) \o Chunk("a.md", "i1", <<X>>) \o Chunk("a.md", "i2", <<Z, EmptyLine, Z>>),
      <<P, WikiLink("b", "b c.md", "i2"), Y, MdLink("A", "/a.md", "i1"), X, Y, Z, EmptyLine, EmptyLine>>,
      <<MdLink("a", "a.md", "i2"), Z, MdLink("d", "d.md", "i1"), Y>> }

GenIds == {"i1", "i3"}
MaxGen == 2
MaxOps == 2

SYNC_DEBOUNCE_MS == 250
SUPPRESS_MS == 700

NoEv == [a |-> "none", path |-> "", accepted |-> FALSE, inWindow |-> FALSE, quiet |-> 0,
         mods |-> 0, started |-> 0]

----------------------------------------------------------------------------
(* Whole passes, one at a time *)

\* the controller at rest: nothing scheduled, nothing in flight
Idle ==
    /\ timers = {}
    /\ debounceTimers = [p \in Paths |-> 0]
    /\ suppressedPaths = {}
    /\ events = {}
    /\ tasks = <<>>
    /\ edits = 0
    /\ dirty = {}
    /\ sinceModify = [p \in Paths |-> SYNC_DEBOUNCE_MS]
    /\ pendingMods = [p \in Paths |-> 0]
    /\ sinceWrite = [p \in Paths |-> SUPPRESS_MS]
    /\ writing = [p \in Paths |-> 0]
    /\ loaded = TRUE
    /\ ev = NoEv

ctl == <<timers, debounceTimers, suppressedPaths, events, tasks, edits, dirty,
         sinceModify, pendingMods, sinceWrite, writing, loaded, ev>>

PassInit ==
    /\ Idle
    /\ \E ta \in SourceTextsA, tb \in SourceTextsB, tm \in MasterTexts :
          vault = [p \in Paths |->
                      CASE p = "a.md" -> ta
                        [] p = "b c.md" -> tb
                        [] p = "d.md" -> Absent
                        [] p = "todo.md" -> tm
                        [] OTHER -> <<EmptyLine>>]
    /\ last = [op |-> "init", path |-> "", old |-> "", failed |-> "", wrote |-> {},
               pre |-> vault, prevOp |-> "", prevPath |-> "", n |-> 0]

\* a pass on path has ended; old is the former path of a rename, failed the
\* path whose read or write was rejected, "" if none was
Ended(op, path, old, failed, st) ==
    /\ UNCHANGED ctl
    /\ vault' = st.vault
    /\ last' = [op |-> op, path |-> path, old |-> old, failed |-> failed, wrote |-> st.wrote,
                pre |-> vault, prevOp |-> last.op, prevPath |-> last.path, n |-> last.n + 1]

DoneAt(op, path, old, st) == Ended(op, path, old, "", st)

Done(op, path, st) == DoneAt(op, path, "", st)

PassSyncFromSource(path) ==
    /\ last.n < MaxOps
    /\ IsFile(vault, path)
    /\ \E gen \in [1..MaxGen -> GenIds] : Done("syncFromSource", path, syncFromSource(vault, path, gen))

PassSyncFromMaster(type) ==
    /\ last.n < MaxOps
    /\ IsFile(vault, masterPathForType(type))
    /\ Done("syncFromMaster", masterPathForType(type), syncFromMaster(vault, type))

PassOnDelete(path) ==
    /\ last.n < MaxOps
    /\ IsFile(vault, path)
    /\ Done("onDelete", path, onDelete([vault EXCEPT ![path] = Absent], path))

PassOnRename(oldPath, newPath) ==
    /\ last.n < MaxOps
    /\ IsFile(vault, oldPath) /\ ~IsFile(vault, newPath)
    /\ DoneAt("onRename", newPath, oldPath,
              onRename(Moved(vault, oldPath, newPath), oldPath, newPath))

PassRebuild ==
    /\ last.n < MaxOps
    /\ \E gen \in [1..MaxGen -> GenIds] : Done("rebuild", "", rebuildAllMasters(vault, gen))

PassNext ==
    \/ \E path \in SourcePaths : PassSyncFromSource(path)
    \/ \E type \in TrackedSet : PassSyncFromMaster(type)
    \/ \E path \in SourcePaths : PassOnDelete(path)
    \/ \E oldPath, newPath \in SourcePaths : PassOnRename(oldPath, newPath)
    \/ PassRebuild

vars == <<vault, last, ctl>>

PassSpec == PassInit /\ [][PassNext]_vars

\* syncFromSource in which the read or the write of the master of the k-th
\* type is rejected: the rejection leaves updateMasterForSourceFile and the
\* loop of syncFromSource, and is logged by the catch of the caller
SyncExtractedUntil(v, path, ex, k) ==
    UpdateMasters(WritePatched([vault |-> v, wrote |-> {}], path, ex.text),
                  SubSeq(trackedTypes, 1, k - 1), path, ex.callouts)

syncFromSourceUntil(v, path, gen, k) ==
    SyncExtractedUntil(v, path, extractTrackedCallouts(v[path], TrackedSet, TRUE, gen), k)

\* syncFromMaster in which the read or the write of the k-th source is
\* rejected
SyncChunksUntil(v, type, chunks, k) ==
    ApplyToSources([vault |-> v, wrote |-> {}], type,
                   SubSeq(SourceOrder(chunks, {}), 1, k - 1), chunks)

syncFromMasterUntil(v, type, k) ==
    SyncChunksUntil(v, type, parseMasterChunks(v[masterPathForType(type)]).chunks, k)

\* the paths of the sources the master of the type names, in order
SourcesNamed(v, type) ==
    SourceOrder(parseMasterChunks(v[masterPathForType(type)]).chunks, {})

FailSyncFromSource(path, k) ==
    /\ last.n < MaxOps
    /\ IsFile(vault, path) /\ IsFile(vault, masterPathForType(trackedTypes[k]))
    /\ \E gen \in [1..MaxGen -> GenIds] :
          Ended("syncFromSource", path, "", masterPathForType(trackedTypes[k]),
                syncFromSourceUntil(vault, path, gen, k))

FailSyncFromMaster(type, k) ==
    /\ last.n < MaxOps
    /\ IsFile(vault, masterPathForType(type))
    /\ k <= Len(SourcesNamed(vault, type))
    /\ IsFile(vault, SourcesNamed(vault, type)[k])
    /\ Ended("syncFromMaster", masterPathForType(type), "", SourcesNamed(vault, type)[k],
             syncFromMasterUntil(vault, type, k))

\* the passes of the debounce timer, any of which may meet a rejected read
\* or write
FailNext ==
    \/ \E path \in SourcePaths : PassSyncFromSource(path)
    \/ \E type \in TrackedSet : PassSyncFromMaster(type)
    \/ \E path \in SourcePaths, k \in 1..Len(trackedTypes) : FailSyncFromSource(path, k)
    \/ \E type \in TrackedSet, k \in 1..Cardinality(SourcePaths) : FailSyncFromMaster(type, k)

FailSpec == PassInit /\ [][FailNext]_vars

\* every master is empty, as ensureMasterFilesExist creates it
EmptyMasters ==
    /\ PassInit
    /\ \A m \in MasterPaths : vault[m] = <<EmptyLine>>

\* the passes that write the masters from the sources
FromSourcesNext ==
    \/ \E path \in SourcePaths : PassSyncFromSource(path)
    \/ \E path \in SourcePaths : PassOnDelete(path)
    \/ \E oldPath, newPath \in SourcePaths : PassOnRename(oldPath, newPath)

FromSourcesSpec == EmptyMasters /\ [][FromSourcesNext]_vars

----------------------------------------------------------------------------
(* What a document holds *)

\* the tracked callouts of a source text, as a parse without auto-assignment
\* reports them
CalloutsIn(text) == extractTrackedCallouts(text, TrackedSet, FALSE, <<NoId>>).callouts

ChunksIn(text) == parseMasterChunks(text).chunks

IdBodies(items) == {<<items[i].blockId, items[i].bodyLines>> : i \in 1..Len(items)}

DistinctIds(callouts) ==
    \A i, j \in 1..Len(callouts) :
        /\ callouts[i].blockId # NoId
        /\ i # j => callouts[i].blockId # callouts[j].blockId

DistinctBodies(callouts) ==
    \A i, j \in 1..Len(callouts) : i # j => callouts[i].bodyLines # callouts[j].bodyLines

SameChunk(c, d) ==
    /\ c.sourcePath = d.sourcePath /\ c.blockId = d.blockId
    /\ c.bodyLines = d.bodyLines /\ c.display = d.display

\* the chunks of a master that do not belong to path, in order
OtherChunks(text, path) ==
    SelectSeqBy(ChunksIn(text),
                [i \in 1..Len(ChunksIn(text)) |-> ChunksIn(text)[i].sourcePath # path])

\* blank lines at the end of a chunk's span
TrailingBlanks(ch) == ch.end - ch.start - 1 - Len(ch.bodyLines)

\* the number of lines of a text: the empty text has none, and a final
\* newline starts no line
NumLines(text) ==
    IF text = <<EmptyLine>> THEN 0
    ELSE IF text[Len(text)] = EmptyLine THEN Len(text) - 1 ELSE Len(text)

\* lines before the first chunk
LeadingLines(text) ==
    IF ChunksIn(text) = <<>> THEN NumLines(text) ELSE ChunksIn(text)[1].start - 1

\* body lines with every white-space-only line read as the empty line
NormBlanks(bodyLines) ==
    [i \in 1..Len(bodyLines) |-> IF IsBlank(bodyLines[i]) THEN EmptyLine ELSE bodyLines[i]]

DistinctKeys(chunks) ==
    \A i, j \in 1..Len(chunks) :
        i # j => ~(chunks[i].sourcePath = chunks[j].sourcePath
                   /\ chunks[i].blockId = chunks[j].blockId)

----------------------------------------------------------------------------
(* The controller: notifications, debounce timers, suppression, and the
   passes as they run, one await at a time *)

TickMs == 125
MaxLatencyMs == 250
MaxEdits == 2
MaxFairEdits == 1
MaxTasks == 2

\* what a step did: a 'modify' notification says whether it was accepted and
\* whether it came inside a suppression window; a timeout of scheduleSync
\* says how long the path had been quiet, how many notifications it serves
\* and how many passes it started
Ev(a, path, accepted, inWindow, quiet, mods, started) ==
    [a |-> a, path |-> path, accepted |-> accepted, inWindow |-> inWindow, quiet |-> quiet,
     mods |-> mods, started |-> started]

Step(a, path) == Ev(a, path, FALSE, FALSE, 0, 0, 0)

\* the ids window.setTimeout has handed out and that are still referred to
UsedIds(ts, reg) == {t.id : t \in ts} \cup {reg[p] : p \in DOMAIN reg}

NewTimerId(ts, reg) ==
    CHOOSE n \in 1..(Cardinality(UsedIds(ts, reg)) + 1) :
        /\ n \notin UsedIds(ts, reg)
        /\ \A m \in 1..(n - 1) : m \in UsedIds(ts, reg)

\* window.setTimeout(callback, ms): kind and path say what the callback is
setTimeout(ts, id, kind, path, ms) ==
    ts \cup {[id |-> id, kind |-> kind, path |-> path, left |-> ms]}

clearTimeout(ts, id) == {t \in ts : t.id # id}

\* a debounce timeout that comes due again and again, as one of setInterval does
Rearm(ts, t) ==
    IF t.kind = "sync" THEN (ts \ {t}) \cup {[t EXCEPT !.left = SYNC_DEBOUNCE_MS]}
    ELSE ts \ {t}

\* a timeout of window.setTimeout runs its callback once
Expire(ts, t) == ts \ {t}

\* scheduleSync without its clearTimeout
KeepPrev(ts, prev) == ts

\* const prev = this._debounceTimers.get(path); if (prev) window.clearTimeout(prev)
ClearPrev(ts, prev) == IF prev # 0 THEN clearTimeout(ts, prev) ELSE ts

ScheduleNew(cleared, reg, path, id) ==
    [timers |-> setTimeout(cleared, id, "sync", path, SYNC_DEBOUNCE_MS),
     reg |-> [reg EXCEPT ![path] = id]]

ScheduleAfter(cleared, reg, path) ==
    ScheduleNew(cleared, reg, path, NewTimerId(cleared, reg))

\* scheduleSync(path): the timers and the registry after the call
scheduleSync(ts, reg, path) == ScheduleAfter(ClearPrev(ts, reg[path]), reg, path)

\* if (this._suppressedPaths.has(file.path)) return
Dropped(suppressed, path) == path \in suppressed

Min(a, b) == IF a < b THEN a ELSE b

\* an engine write to p is under way, or the last one ended less than the
\* suppression window ago
InWindow(p) == writing[p] > 0 \/ sinceWrite[p] < SUPPRESS_MS

Scheduled(s) ==
    /\ timers' = s.timers
    /\ debounceTimers' = s.reg

\* the vault has a 'modify' notification for the listener, which
\* registerEvent keeps attached until the plugin is unloaded
Notify(es, isLoaded, path, cause) ==
    IF isLoaded THEN es \cup {[path |-> path, age |-> 0, cause |-> cause]} ELSE es

\* the vault delivers notification e to the 'modify' listener
DeliverModify(e) ==
    /\ e \in events
    /\ events' = events \ {e}
    /\ IF Dropped(suppressedPaths, e.path)
       THEN /\ UNCHANGED <<timers, debounceTimers, sinceModify, pendingMods>>
            /\ ev' = Ev("modify", e.path, FALSE, InWindow(e.path), sinceModify[e.path],
                      pendingMods[e.path], 0)
       ELSE /\ Scheduled(scheduleSync(timers, debounceTimers, e.path))
            /\ sinceModify' = [sinceModify EXCEPT ![e.path] = 0]
            /\ pendingMods' = [pendingMods EXCEPT ![e.path] = @ + 1]
            /\ ev' = Ev("modify", e.path, TRUE, InWindow(e.path), sinceModify[e.path],
                      pendingMods[e.path] + 1, 0)
    /\ UNCHANGED <<vault, last, loaded, suppressedPaths, tasks, edits, dirty, sinceWrite, writing>>

\* a pass in flight: the async function, its arguments, the await it is
\* suspended at and the locals it resumes with
Task(fn, path, type, pc) ==
    [fn |-> fn, path |-> path, type |-> type, pc |-> pc, old |-> "", callouts |-> <<>>,
     types |-> <<>>, chunks |-> <<>>, paths |-> <<>>, target |-> "",
     newText |-> <<>>, ret |-> ""]

TypeOfMaster(path) == CHOOSE type \in TrackedSet : masterPathForType(type) = path

\* syncPath(path) up to its first await
syncPath(v, ts, path) ==
    IF ~IsFile(v, path) THEN ts
    ELSE IF path \in MasterPaths
         THEN Append(ts, Task("syncFromMaster", path, TypeOfMaster(path), "readChunks"))
         ELSE Append(ts, Task("syncFromSource", path, "", "readSource"))

\* the timeout of scheduleSync comes due
FireSync(t) ==
    /\ t \in timers /\ t.kind = "sync" /\ t.left <= 0
    /\ Len(tasks) < MaxTasks
    /\ timers' = Expire(timers, t)
    /\ debounceTimers' = [debounceTimers EXCEPT ![t.path] = 0]
    /\ tasks' = syncPath(vault, tasks, t.path)
    /\ pendingMods' = [pendingMods EXCEPT ![t.path] = 0]
    /\ ev' = Ev("fireSync", t.path, FALSE, FALSE, sinceModify[t.path],
                pendingMods[t.path], Len(tasks') - Len(tasks))
    /\ UNCHANGED <<vault, last, loaded, suppressedPaths, events, edits, dirty, sinceModify,
                   sinceWrite, writing>>

\* the timeout of writeFileIfChanged comes due
FireUnsuppress(t) ==
    /\ t \in timers /\ t.kind = "unsuppress" /\ t.left <= 0
    /\ timers' = Expire(timers, t)
    /\ suppressedPaths' = suppressedPaths \ {t.path}
    /\ ev' = Step("unsuppress", t.path)
    /\ UNCHANGED <<vault, last, loaded, debounceTimers, events, tasks, edits, dirty, sinceModify,
                   pendingMods, sinceWrite, writing>>

RECURSIVE SkipTypes(_, _)
\* updateMasterForSourceFile returns at once for a type whose master is no file
SkipTypes(v, types) ==
    IF types = <<>> THEN <<>>
    ELSE IF IsFile(v, masterPathForType(types[1])) THEN types
    ELSE SkipTypes(v, Tail(types))

\* the await inside the loop over the types: the cachedRead of the master
ReadPc(fn) ==
    CASE fn = "onRename" -> "readRename"
      [] fn = "onDelete" -> "readDelete"
      [] OTHER -> "readMaster"

AtTypes(t, types) ==
    IF types = <<>> THEN [t EXCEPT !.pc = "done"]
    ELSE [t EXCEPT !.types = types, !.pc = ReadPc(t.fn)]

\* the loop over byType, entered at t.types, up to the next await
SourceLoop(v, t) == AtTypes(t, SkipTypes(v, t.types))

RECURSIVE SkipPaths(_, _)
\* if (!(af instanceof TFile)) continue
SkipPaths(v, paths) ==
    IF paths = <<>> THEN <<>>
    ELSE IF IsFile(v, paths[1]) THEN paths
    ELSE SkipPaths(v, Tail(paths))

AtPaths(t, paths) ==
    IF paths = <<>> THEN [t EXCEPT !.pc = "done"]
    ELSE [t EXCEPT !.paths = paths, !.pc = "readTarget"]

\* the loop over bySource, entered at t.paths, up to the next await
MasterLoop(v, t) == AtPaths(t, SkipPaths(v, t.paths))

\* writeFileIfChanged returns to its caller, which runs on to its next await
Return(v, t) ==
    CASE t.ret = "types" -> SourceLoop(v, t)
      [] t.ret = "nextType" -> SourceLoop(v, [t EXCEPT !.types = Tail(@)])
      [] t.ret = "nextSource" -> MasterLoop(v, [t EXCEPT !.paths = Tail(@)])

Remove(ts, i) == SubSeq(ts, 1, i - 1) \o SubSeq(ts, i + 1, Len(ts))

\* task i is now t; a pass that has returned is gone
PutTask(i, t) ==
    tasks' = IF t.pc = "done" THEN Remove(tasks, i) ELSE [tasks EXCEPT ![i] = t]

\* writeFileIfChanged(file, newText) up to its first await
CallWrite(t, target, newText, ret) ==
    [t EXCEPT !.pc = "readOld", !.target = target, !.newText = newText, !.ret = ret]

\* syncFromSource after extractTrackedCallouts
AfterExtract(v, t, raw, ex) ==
    IF ex.text # raw
    THEN CallWrite([t EXCEPT !.callouts = ex.callouts, !.types = trackedTypes],
                   t.path, ex.text, "types")
    ELSE SourceLoop(v, [t EXCEPT !.callouts = ex.callouts, !.types = trackedTypes])

\* syncFromSource resumes with the text of the source
StepReadSource(i) ==
    /\ i \in DOMAIN tasks /\ tasks[i].pc = "readSource"
    /\ \E gen \in [1..MaxGen -> GenIds] :
          PutTask(i, AfterExtract(vault, tasks[i], vault[tasks[i].path],
                      extractTrackedCallouts(vault[tasks[i].path], TrackedSet, TRUE, gen)))
    /\ dirty' = dirty \ {tasks[i].path}
    /\ ev' = Step("readSource", tasks[i].path)
    /\ UNCHANGED <<vault, last, loaded, timers, debounceTimers, suppressedPaths, events, edits,
                   sinceModify, pendingMods, sinceWrite, writing>>

\* updateMasterForSourceFile resumes with the text of the master
StepReadMaster(i) ==
    /\ i \in DOMAIN tasks /\ tasks[i].pc = "readMaster"
    /\ PutTask(i, CallWrite(tasks[i], masterPathForType(tasks[i].types[1]),
                    updateMasterText(vault[masterPathForType(tasks[i].types[1])],
                                     tasks[i].path,
                                     OfType(tasks[i].callouts, tasks[i].types[1])),
                    "nextType"))
    /\ ev' = Step("readMaster", tasks[i].path)
    /\ UNCHANGED <<vault, last, loaded, timers, debounceTimers, suppressedPaths, events, edits,
                   dirty, sinceModify, pendingMods, sinceWrite, writing>>

\* writeFileIfChanged resumes with the old text of its file
StepReadOld(i) ==
    /\ i \in DOMAIN tasks /\ tasks[i].pc = "readOld"
    /\ IF vault[tasks[i].target] = tasks[i].newText
       THEN /\ PutTask(i, Return(vault, tasks[i]))
            /\ UNCHANGED <<suppressedPaths, writing>>
       ELSE /\ PutTask(i, [tasks[i] EXCEPT !.pc = "modify"])
            /\ suppressedPaths' = suppressedPaths \cup {tasks[i].target}
            /\ writing' = [writing EXCEPT ![tasks[i].target] = @ + 1]
    /\ ev' = Step("readOld", tasks[i].target)
    /\ UNCHANGED <<vault, last, loaded, timers, debounceTimers, events, edits, dirty, sinceModify,
                   pendingMods, sinceWrite>>

\* vault.modify completes, and the finally block of writeFileIfChanged runs
StepModify(i) ==
    /\ i \in DOMAIN tasks /\ tasks[i].pc = "modify"
    /\ vault' = [vault EXCEPT ![tasks[i].target] = tasks[i].newText]
    /\ events' = Notify(events, loaded, tasks[i].target, "engine")
    /\ timers' = setTimeout(timers, NewTimerId(timers, debounceTimers), "unsuppress",
                            tasks[i].target, SUPPRESS_MS)
    /\ writing' = [writing EXCEPT ![tasks[i].target] = @ - 1]
    /\ sinceWrite' = [sinceWrite EXCEPT ![tasks[i].target] = 0]
    /\ PutTask(i, Return(vault', tasks[i]))
    /\ dirty' = dirty \ {tasks[i].target}
    /\ ev' = Step("modify done", tasks[i].target)
    /\ UNCHANGED <<last, loaded, debounceTimers, suppressedPaths, edits, sinceModify, pendingMods>>

WithChunks(v, t, chunks) ==
    MasterLoop(v, [t EXCEPT !.chunks = chunks, !.paths = SourceOrder(chunks, {})])

\* syncFromMaster resumes with the text of the master
StepReadChunks(i) ==
    /\ i \in DOMAIN tasks /\ tasks[i].pc = "readChunks"
    /\ PutTask(i, WithChunks(vault, tasks[i], parseMasterChunks(vault[tasks[i].path]).chunks))
    /\ dirty' = dirty \ {tasks[i].path}
    /\ ev' = Step("readChunks", tasks[i].path)
    /\ UNCHANGED <<vault, last, loaded, timers, debounceTimers, suppressedPaths, events, edits,
                   sinceModify, pendingMods, sinceWrite, writing>>

\* syncFromMaster after applyMasterEditsToSource
AfterApply(v, t, srcText, updated) ==
    IF updated # srcText THEN CallWrite(t, t.paths[1], updated, "nextSource")
    ELSE MasterLoop(v, [t EXCEPT !.paths = Tail(@)])

\* syncFromMaster resumes with the text of one source
StepReadTarget(i) ==
    /\ i \in DOMAIN tasks /\ tasks[i].pc = "readTarget"
    /\ PutTask(i, AfterApply(vault, tasks[i], vault[tasks[i].paths[1]],
                    applyMasterEditsToSource(vault[tasks[i].paths[1]], tasks[i].type,
                        ChunksOf(tasks[i].chunks, tasks[i].paths[1]))))
    /\ ev' = Step("readTarget", tasks[i].path)
    /\ UNCHANGED <<vault, last, loaded, timers, debounceTimers, suppressedPaths, events, edits,
                   dirty, sinceModify, pendingMods, sinceWrite, writing>>

UserBodies == {<<X>>, <<Y>>}

\* the user retypes the body of the first callout of a source
SourceEditsOf(text, callouts) ==
    IF callouts = <<>> THEN {}
    ELSE {Splice(text, callouts[1].startLine + 1, callouts[1].quoteEndLine,
                 quoteBodyLines(b)) : b \in UserBodies} \ {text}

\* the user retypes the body of the first chunk of a master
MasterEditsOf(text, chunks) ==
    IF chunks = <<>> THEN {}
    ELSE {Splice(text, chunks[1].start + 1, chunks[1].start + 1 + Len(chunks[1].bodyLines),
                 b) : b \in UserBodies} \ {text}

UserTexts(path, text) ==
    IF path \in MasterPaths THEN MasterEditsOf(text, ChunksIn(text))
    ELSE SourceEditsOf(text, CalloutsIn(text))

EditedPaths == {"a.md", "todo.md"}

\* the user saves an edit of a document; the vault will notify the listener
UserEdit(path, maxEdits) ==
    /\ edits < maxEdits
    /\ IsFile(vault, path)
    /\ \E text \in UserTexts(path, vault[path]) : vault' = [vault EXCEPT ![path] = text]
    /\ events' = Notify(events, loaded, path, "user")
    /\ edits' = edits + 1
    /\ dirty' = dirty \cup {path}
    /\ ev' = Step("edit", path)
    /\ UNCHANGED <<last, loaded, timers, debounceTimers, suppressedPaths, tasks, sinceModify,
                   pendingMods, sinceWrite, writing>>

\* time passes, up to the next timeout: no timeout is overdue, no pass is between two awaits, and
\* no notification is left waiting longer than the vault takes
Advance(dt) ==
    /\ \A e \in events : e.age + dt <= MaxLatencyMs
    /\ timers' = {[t EXCEPT !.left = @ - dt] : t \in timers}
    /\ events' = {[e EXCEPT !.age = @ + dt] : e \in events}
    /\ sinceModify' = [p \in Paths |-> Min(sinceModify[p] + dt, SYNC_DEBOUNCE_MS)]
    /\ sinceWrite' = [p \in Paths |-> Min(sinceWrite[p] + dt, SUPPRESS_MS)]

\* the time until the next timeout comes due, TickMs at most
NextDue(ts) ==
    IF \E t \in ts : t.left < TickMs
    THEN CHOOSE d \in {t.left : t \in ts} : \A t \in ts : d <= t.left
    ELSE TickMs

Tick ==
    /\ timers # {} \/ events # {}
    /\ tasks = <<>>
    /\ \A t \in timers : t.left > 0
    /\ Advance(NextDue(timers))
    /\ ev' = Step("tick", "")
    /\ UNCHANGED <<vault, last, loaded, debounceTimers, suppressedPaths, tasks, edits, dirty,
                   pendingMods, writing>>

Init ==
    /\ Idle
    /\ \E ta \in {Callout("todo", <<Q(X)>>, NoId), Callout("todo", <<Q(X)>>, "i1")},
          tm \in {<<EmptyLine>>, Chunk("a.md", "i1", <<X>>) \o Chunk("b c.md", "i2", <<Z>>)} :
          vault = [p \in Paths |->
                      CASE p = "a.md" -> ta
                        [] p = "b c.md" -> Callout("todo", <<Q(Z)>>, "i2")
                        [] p = "d.md" -> Absent
                        [] p = "todo.md" -> tm
                        [] OTHER -> <<EmptyLine>>]
    /\ last = [op |-> "init", path |-> "", old |-> "", failed |-> "", wrote |-> {},
               pre |-> vault, prevOp |-> "", prevPath |-> "", n |-> 0]

StepTask(i) ==
    \/ StepReadSource(i)
    \/ StepReadMaster(i)
    \/ StepReadOld(i)
    \/ StepModify(i)
    \/ StepReadChunks(i)
    \/ StepReadTarget(i)

\* what the event loop does
Run ==
    \/ \E e \in events : DeliverModify(e)
    \/ \E t \in timers : FireSync(t)
    \/ \E t \in timers : FireUnsuppress(t)
    \/ \E i \in 1..MaxTasks : StepTask(i)
    \/ Tick

Next ==
    \/ \E path \in EditedPaths : UserEdit(path, MaxEdits)
    \/ Run

Spec == Init /\ [][Next]_vars

FairNext ==
    \/ \E path \in EditedPaths : UserEdit(path, MaxFairEdits)
    \/ Run

\* a pass in flight is resumed in the end: weak fairness of the steps of the
\* passes, which are enabled exactly when a pass is in flight
PassesRun == []<>(tasks = <<>>) \/ []<><<\E i \in 1..MaxTasks : StepTask(i)>>_vars

\* the event loop runs every callback that is due, and time goes on
FairSpec ==
    /\ Init /\ [][FairNext]_vars
    /\ WF_vars(\E e \in events : DeliverModify(e))
    /\ WF_vars(\E t \in timers : FireSync(t))
    /\ WF_vars(\E t \in timers : FireUnsuppress(t))
    /\ WF_vars(Tick)
    /\ PassesRun

\* an onunload that empties the registry and clears no timeout
ClearNone(ts, reg) == ts

\* for (const t of this._debounceTimers.values()) window.clearTimeout(t)
ClearAll(ts, reg) == {t \in ts : t.id \notin {reg[p] : p \in DOMAIN reg}}

\* onunload(), after which the listeners of registerEvent are detached; ev
\* says whether a path was suppressed and how many timeouts were pending
Unload ==
    /\ loaded
    /\ loaded' = FALSE
    /\ timers' = ClearAll(timers, debounceTimers)
    /\ debounceTimers' = [p \in Paths |-> 0]
    /\ suppressedPaths' = {}
    /\ events' = {}
    /\ ev' = Ev("unload", "", FALSE, suppressedPaths # {}, 0,
                Cardinality({t \in timers : t.kind = "sync"}), 0)
    /\ UNCHANGED <<vault, last, tasks, edits, dirty, sinceModify, pendingMods, sinceWrite,
                   writing>>

\* onRename or onDelete from its call up to its first await
Entered(v, t) == SourceLoop(v, [t EXCEPT !.types = trackedTypes])

Started(ts, t) == IF t.pc = "done" THEN ts ELSE Append(ts, t)

\* a listener that drops the notification of a suppressed path, as the
\* 'modify' listener does
PropagateUnlessSuppressed(v, ts, suppressed, t) ==
    IF t.old \in suppressed THEN ts ELSE Started(ts, Entered(v, t))

\* this.onRename(file, oldPath).catch(...), this.onDelete(file.path).catch(...):
\* the listener looks neither at _suppressedPaths nor at _debounceTimers
Propagate(v, ts, suppressed, t) == Started(ts, Entered(v, t))

MovedTask(fn, path, old) == [Task(fn, path, "", "") EXCEPT !.old = old]

\* what a 'rename' or 'delete' notification did: whether the path was
\* suppressed, whether it had a debounce timer, how many passes it started
MoveEv(a, path, n) ==
    Ev(a, path, TRUE, path \in suppressedPaths, 0,
       IF debounceTimers[path] # 0 THEN 1 ELSE 0, n)

\* the user renames a source and the vault calls the 'rename' listener; no
\* pass is in flight (what the read or the write of a file that is gone
\* does is the vault's matter)
RenameNotified(oldPath, newPath) ==
    /\ loaded /\ tasks = <<>>
    /\ IsFile(vault, oldPath) /\ ~IsFile(vault, newPath)
    /\ vault' = Moved(vault, oldPath, newPath)
    /\ tasks' = Propagate(vault', tasks, suppressedPaths,
                          MovedTask("onRename", newPath, oldPath))
    /\ dirty' = dirty \ {oldPath}
    /\ ev' = MoveEv("rename", oldPath, Len(tasks') - Len(tasks))
    /\ UNCHANGED <<last, loaded, timers, debounceTimers, suppressedPaths, events, edits,
                   sinceModify, pendingMods, sinceWrite, writing>>

\* the user deletes a source and the vault calls the 'delete' listener
DeleteNotified(path) ==
    /\ loaded /\ tasks = <<>>
    /\ IsFile(vault, path)
    /\ vault' = [vault EXCEPT ![path] = Absent]
    /\ tasks' = Propagate(vault', tasks, suppressedPaths, MovedTask("onDelete", path, path))
    /\ dirty' = dirty \ {path}
    /\ ev' = MoveEv("delete", path, Len(tasks') - Len(tasks))
    /\ UNCHANGED <<last, loaded, timers, debounceTimers, suppressedPaths, events, edits,
                   sinceModify, pendingMods, sinceWrite, writing>>

\* if (!ops.length) continue; ...; await this.writeFileIfChanged(af, out)
AfterRewrite(v, t, mine, out) ==
    IF mine = <<>> THEN SourceLoop(v, [t EXCEPT !.types = Tail(@)])
    ELSE CallWrite(t, masterPathForType(t.types[1]), out, "nextType")

\* onRename resumes with the text of a master
StepReadRename(i) ==
    /\ i \in DOMAIN tasks /\ tasks[i].pc = "readRename"
    /\ PutTask(i, AfterRewrite(vault, tasks[i],
                    ChunksOf(parseMasterChunks(vault[masterPathForType(tasks[i].types[1])]).chunks,
                             tasks[i].old),
                    renameMasterText(vault[masterPathForType(tasks[i].types[1])],
                                     tasks[i].old, tasks[i].path)))
    /\ ev' = Step("readRename", tasks[i].path)
    /\ UNCHANGED <<vault, last, loaded, timers, debounceTimers, suppressedPaths, events,
                   edits, dirty, sinceModify, pendingMods, sinceWrite, writing>>

\* onDelete resumes with the text of a master
StepReadDelete(i) ==
    /\ i \in DOMAIN tasks /\ tasks[i].pc = "readDelete"
    /\ PutTask(i, AfterRewrite(vault, tasks[i],
                    ChunksOf(parseMasterChunks(vault[masterPathForType(tasks[i].types[1])]).chunks,
                             tasks[i].old),
                    deleteMasterText(vault[masterPathForType(tasks[i].types[1])],
                                     tasks[i].old)))
    /\ ev' = Step("readDelete", tasks[i].path)
    /\ UNCHANGED <<vault, last, loaded, timers, debounceTimers, suppressedPaths, events,
                   edits, dirty, sinceModify, pendingMods, sinceWrite, writing>>

\* the source the user renames or deletes, and the name a rename gives
MovedPaths == {"a.md"}
NewPaths == {"d.md"}

\* the event loop with the shutdown of the plugin
UnloadNext ==
    \/ Next
    \/ Unload

UnloadSpec == Init /\ [][UnloadNext]_vars

\* no source has been renamed or deleted yet
Unmoved == \A path \in MovedPaths : IsFile(vault, path)

\* the event loop up to a 'rename' or 'delete' notification, and from there
\* to the end of the passes in flight
MoveNext ==
    \/ Unmoved /\ \E path \in EditedPaths : UserEdit(path, MaxFairEdits)
    \/ Unmoved /\ \E e \in events : DeliverModify(e)
    \/ Unmoved /\ \E t \in timers : FireSync(t)
    \/ Unmoved /\ \E t \in timers : FireUnsuppress(t)
    \/ Unmoved /\ Tick
    \/ \E i \in 1..MaxTasks : StepTask(i)
    \/ \E oldPath \in MovedPaths, newPath \in NewPaths : RenameNotified(oldPath, newPath)
    \/ \E path \in MovedPaths : DeleteNotified(path)
    \/ \E i \in 1..MaxTasks : StepReadRename(i)
    \/ \E i \in 1..MaxTasks : StepReadDelete(i)

MoveSpec == Init /\ [][MoveNext]_vars

\* the sources that feed one master and that the user edits
FeedingPaths == {"a.md", "b c.md"}

\* the event loop with a user who edits two sources of one master
FeedNext ==
    \/ \E path \in FeedingPaths : UserEdit(path, MaxEdits)
    \/ Run

FeedSpec == Init /\ [][FeedNext]_vars

\* a timeout of scheduleSync is pending for path p
SyncTimers(p) == {t \in timers : t.kind = "sync" /\ t.path = p}

\* nothing scheduled and nothing running: no debounce timer, no pass in
\* flight, no notification under way
Quiescent ==
    /\ tasks = <<>>
    /\ events = {}
    /\ \A p \in Paths : SyncTimers(p) = {} /\ debounceTimers[p] = 0

----------------------------------------------------------------------------
(* Claims about whole passes (PassSpec) *)

\* C2: after Source->Master of S (ids of S distinct, so that "its callout" is
\* defined), for every tracked type T the chunks of T's master with
\* sourcePath S have the same ids as the type-T callouts of S, each with its
\* callout's body lines.
C2_MasterMatchesSource ==
    (last.op = "syncFromSource" /\ DistinctIds(CalloutsIn(vault[last.path])))
    => \A i \in 1..Len(trackedTypes) :
          IdBodies(ChunksOf(ChunksIn(vault[masterPathForType(trackedTypes[i])]), last.path))
          = IdBodies(OfType(CalloutsIn(vault[last.path]), trackedTypes[i]))

\* C3: a Source->Master pass of S that directly follows a Source->Master
\* pass of S writes nothing, neither S nor a master.
C3_SecondPassWritesNothing ==
    (last.op = "syncFromSource" /\ last.prevOp = "syncFromSource" /\ last.prevPath = last.path
     /\ DistinctIds(CalloutsIn(vault[last.path])))
    => last.wrote = {}

\* C4: Source->Master of S directly followed by Master->Source of type T
\* leaves every type-T callout of S (distinct ids, distinct bodies, a
\* master without duplicate chunks) with the body lines it had, a
\* white-space-only line counting as an empty one.
C4_RoundTripRestoresBodies ==
    \A i \in 1..Len(trackedTypes) :
        (/\ last.op = "syncFromMaster" /\ last.path = masterPathForType(trackedTypes[i])
         /\ last.prevOp = "syncFromSource"
         /\ DistinctIds(CalloutsIn(last.pre[last.prevPath]))
         /\ DistinctBodies(CalloutsIn(last.pre[last.prevPath]))
         /\ DistinctKeys(ChunksIn(last.pre[last.path])))
        => LET before == OfType(CalloutsIn(last.pre[last.prevPath]), trackedTypes[i])
               after == OfType(CalloutsIn(vault[last.prevPath]), trackedTypes[i])
           IN /\ Len(after) = Len(before)
              /\ \A k \in 1..Len(before) :
                    NormBlanks(after[k].bodyLines) = NormBlanks(before[k].bodyLines)

\* C5: no pass changes, removes or replaces the identifier line of a callout
\* that had one: the k-th callout of every source keeps its identifier.
C5_IdentifiersStable ==
    \A path \in SourcePaths :
        (IsFile(last.pre, path) /\ IsFile(vault, path))
        => LET before == CalloutsIn(last.pre[path])
               after == CalloutsIn(vault[path])
           IN \A k \in 1..Len(before) :
                 before[k].blockId # NoId
                 => k <= Len(after) /\ after[k].blockId = before[k].blockId

\* the source lines with the body span of every callout that a chunk of
\* entries names replaced by the quoted body of pick[k], a chunk naming the
\* k-th callout
RECURSIVE ReplaceBodies(_, _, _, _)
ReplaceBodies(lines, callouts, entries, k) ==
    IF k = 0 THEN {lines}
    ELSE LET c == callouts[k]
             named == {i \in 1..Len(entries) : LastWithId(callouts, entries[i].blockId) = k}
         IN IF named = {} THEN ReplaceBodies(lines, callouts, entries, k - 1)
            ELSE UNION {ReplaceBodies(Splice(lines, c.startLine + 1, c.quoteEndLine,
                                             quoteBodyLines(entries[i].bodyLines)),
                                      callouts, entries, k - 1) : i \in named}

\* C9: Master->Source replaces exactly the body span of each callout a chunk
\* names by the chunk's body as block-quote lines; the header line, the
\* identifier line and every other line of the source stay.
C9_EditInPlace ==
    \A t \in 1..Len(trackedTypes), path \in SourcePaths :
        (/\ last.op = "syncFromMaster" /\ last.path = masterPathForType(trackedTypes[t])
         /\ IsFile(last.pre, path))
        => LET callouts == extractTrackedCallouts(last.pre[path], {trackedTypes[t]}, FALSE,
                                                  <<NoId>>).callouts
               entries == ChunksOf(ChunksIn(last.pre[last.path]), path)
           IN Split(vault[path])
                  \in ReplaceBodies(Split(last.pre[path]), callouts, entries, Len(callouts))

Said(chunks) ==
    [i \in 1..Len(chunks) |->
        [sourcePath |-> chunks[i].sourcePath, blockId |-> chunks[i].blockId,
         bodyLines |-> chunks[i].bodyLines, display |-> chunks[i].display]]

\* the chunks with every chunk of oldPath pointed at newPath under its name
Repointed(chunks, oldPath, newPath) ==
    [i \in 1..Len(chunks) |->
        IF chunks[i].sourcePath = oldPath
        THEN [chunks[i] EXCEPT !.sourcePath = newPath, !.display = basename(newPath)]
        ELSE chunks[i]]

\* C11: after the rename of a source from last.old to last.path has been
\* propagated, every master holds the chunks it held, in the same order,
\* with the chunks of the old path pointing at the new path under the new
\* display name and with their ids and bodies, and the others as they were;
\* only masters were written, and every source has the text it had.
C11_RenamePropagated ==
    last.op = "onRename"
    => /\ \A m \in MasterPaths :
             Said(ChunksIn(vault[m])) = Said(Repointed(ChunksIn(last.pre[m]), last.old, last.path))
       /\ last.wrote \subseteq MasterPaths
       /\ vault[last.path] = last.pre[last.old]
       /\ \A p \in SourcePaths \ {last.old, last.path} : vault[p] = last.pre[p]

\* a rename rewrote a master that holds chunks of the old path, one of them
\* with a body, and a chunk of another path
C11_Witness ==
    /\ last.op = "onRename" /\ "todo.md" \in last.wrote
    /\ \E i, j \in 1..Len(ChunksIn(last.pre["todo.md"])) :
          /\ ChunksIn(last.pre["todo.md"])[i].sourcePath = last.old
          /\ ChunksIn(last.pre["todo.md"])[i].bodyLines # <<>>
          /\ ChunksIn(last.pre["todo.md"])[j].sourcePath \notin {last.old, last.path}

\* line k of the text is there and is blank
BlankAt(text, k) == k \in 1..Len(text) /\ IsBlank(text[k])

\* C12: after a parse with auto-assignment (the first step of
\* Source->Master, which writes the text back), every callout that had no
\* identifier has its body unchanged and, after the body, a blank line, then
\* its identifier line, then a blank line.
C12_IdBracketedByBlanks ==
    last.op = "syncFromSource"
    => \A j \in 1..Len(CalloutsIn(last.pre[last.path])) :
          CalloutsIn(last.pre[last.path])[j].blockId = NoId
          => /\ Len(CalloutsIn(vault[last.path])) >= j
             /\ CalloutsIn(vault[last.path])[j].bodyLines
                   = CalloutsIn(last.pre[last.path])[j].bodyLines
             /\ CalloutsIn(vault[last.path])[j].idLine
                   = CalloutsIn(vault[last.path])[j].quoteEndLine + 1
             /\ BlankAt(vault[last.path], CalloutsIn(vault[last.path])[j].idLine - 1)
             /\ BlankAt(vault[last.path], CalloutsIn(vault[last.path])[j].idLine + 1)


\* the callouts of every source of the vault, each with its path
VaultEntries(v) ==
    Flatten([i \in 1..Len(MarkdownFiles) |->
                IF IsFile(v, MarkdownFiles[i])
                THEN EntriesOf(MarkdownFiles[i], CalloutsIn(v[MarkdownFiles[i]]))
                ELSE <<>>])

\* the link header line, the body lines and one blank line
Rendering(e) ==
    <<MdLink(e.display, encodeURI(e.sourcePath), e.blockId)>> \o e.bodyLines \o <<EmptyLine>>

\* the text made of the renderings, every line of them newline-terminated
RenderedText(entries) ==
    Flatten([i \in 1..Len(entries) |-> Rendering(entries[i])]) \o <<EmptyLine>>

\* C13: after a full rebuild, the master of every tracked type that has a
\* callout in the vault is exactly the renderings of the callouts of that
\* type (link header line, body lines, one blank line, every line ended by
\* a newline) in the order of source path, then block id.
C13_RebuildOutput ==
    last.op = "rebuild"
    => \A type \in TrackedSet :
          (IsFile(vault, masterPathForType(type)) /\ OfType(VaultEntries(vault), type) # <<>>)
          => vault[masterPathForType(type)]
                = RenderedText(SortEntries(OfType(VaultEntries(vault), type)))

\* C14: the parse without auto-assignment that Master->Source makes of a
\* source its master names reports no callout that has no identifier line,
\* and returns the text it was given.
C14_UnidentifiedSkipped ==
    \A t \in 1..Len(trackedTypes), path \in SourcePaths :
        (/\ last.op = "syncFromMaster" /\ last.path = masterPathForType(trackedTypes[t])
         /\ IsFile(last.pre, path)
         /\ ChunksOf(ChunksIn(last.pre[last.path]), path) # <<>>)
        => /\ \A i \in 1..Len(extractTrackedCallouts(last.pre[path], {trackedTypes[t]},
                                                     FALSE, <<NoId>>).callouts) :
                 extractTrackedCallouts(last.pre[path], {trackedTypes[t]},
                                        FALSE, <<NoId>>).callouts[i].blockId # NoId
           /\ extractTrackedCallouts(last.pre[path], {trackedTypes[t]},
                                     FALSE, <<NoId>>).text = last.pre[path]

\* the callouts of a text in order: type, header line and identifier
Shape(text) ==
    [i \in 1..Len(CalloutsIn(text)) |->
        [type |-> CalloutsIn(text)[i].type,
         header |-> Split(text)[CalloutsIn(text)[i].startLine],
         blockId |-> CalloutsIn(text)[i].blockId]]

\* some chunk of the master names a callout of the type in the source text
NamesCallout(masterText, type, path, sourceText) ==
    Matched(extractTrackedCallouts(sourceText, {type}, FALSE, <<NoId>>).callouts,
            ChunksOf(ChunksIn(masterText), path)) # <<>>

\* C15: a Master->Source pass leaves the number, order, types, header lines
\* and identifiers of the callouts of every source as they were, and a
\* source in which no chunk of the master names a callout of the type is
\* neither changed nor written.
C15_StructurePreserved ==
    \A t \in 1..Len(trackedTypes), path \in SourcePaths :
        (/\ last.op = "syncFromMaster" /\ last.path = masterPathForType(trackedTypes[t])
         /\ IsFile(last.pre, path))
        => /\ IsFile(vault, path)
           /\ Shape(vault[path]) = Shape(last.pre[path])
           /\ ~NamesCallout(last.pre[last.path], trackedTypes[t], path, last.pre[path])
              => (vault[path] = last.pre[path] /\ path \notin last.wrote)

\* the line array and the operations updateMasterForSourceFile computes for
\* the master m, given the callouts of the patched source
SourceToMasterOps(v, m, path, callouts) ==
    [lines |-> Split(v[m]),
     ops |-> ReplaceOps(ChunksOf(ChunksIn(v[m]), path), path, callouts)]

\* the same of applyMasterEditsToSource for the source path and the master m
MasterToSourceOps(v, m, type, path) ==
    [lines |-> Split(v[path]),
     ops |-> BodyOps(extractTrackedCallouts(v[path], {type}, FALSE, <<NoId>>).callouts,
                     Matched(extractTrackedCallouts(v[path], {type}, FALSE, <<NoId>>).callouts,
                             ChunksOf(ChunksIn(v[m]), path)))]

\* the same of onDelete and of onRename for the master m
DeleteOps(v, m, path) ==
    [lines |-> Split(v[m]), ops |-> RemoveOps(ChunksOf(ChunksIn(v[m]), path))]

RenamingOps(v, m, oldPath, newPath) ==
    [lines |-> Split(v[m]), ops |-> RenameOps(ChunksOf(ChunksIn(v[m]), oldPath), newPath)]

\* every line array with the operations the last pass computed on it
PassOps ==
    CASE last.op = "syncFromSource" ->
            {SourceToMasterOps(last.pre, masterPathForType(type), last.path,
                               OfType(CalloutsIn(vault[last.path]), type)) :
                type \in {t \in TrackedSet : IsFile(last.pre, masterPathForType(t))}}
      [] last.op = "syncFromMaster" ->
            {MasterToSourceOps(last.pre, last.path, TypeOfMaster(last.path), path) :
                path \in {q \in SourcePaths : IsFile(last.pre, q)}}
      [] last.op = "onDelete" ->
            {DeleteOps(last.pre, m, last.path) : m \in {q \in MasterPaths : IsFile(last.pre, q)}}
      [] last.op = "onRename" ->
            {RenamingOps(last.pre, m, last.old, last.path) :
                m \in {q \in MasterPaths : IsFile(last.pre, q)}}
      [] OTHER -> {}

\* no two operations share a line
NonOverlapping(ops) ==
    \A i, j \in 1..Len(ops) :
        i # j => (ops[i].end <= ops[j].start \/ ops[j].end <= ops[i].start)

Descending(ops) == \A i \in 1..(Len(ops) - 1) : ops[i].start >= ops[i + 1].start

\* the lines the operations put in front of line p of the original array
InsertsAt(ops, p) ==
    Flatten([i \in 1..Len(ops) |-> IF ops[i].start = p THEN ops[i].insert ELSE <<>>])

Covered(ops, p) == \E i \in 1..Len(ops) : ops[i].start <= p /\ p < ops[i].end

RECURSIVE Simultaneous(_, _, _)
\* every range of the original array replaced at once, from line p on
Simultaneous(lines, ops, p) ==
    IF p > Len(lines) + 1 THEN <<>>
    ELSE InsertsAt(ops, p)
         \o (IF p <= Len(lines) /\ ~Covered(ops, p) THEN <<lines[p]>> ELSE <<>>)
         \o Simultaneous(lines, ops, p + 1)

\* the same, the operations that start at one line taken in any order
SimultaneousResults(lines, ops) ==
    {Simultaneous(lines, [i \in 1..Len(ops) |-> ops[f[i]]], 1) : f \in Permutations(1..Len(ops))}

\* C16: in every pass the operations are applied in descending order of
\* start, and when no two of them overlap the result is the original line
\* array with every range replaced at once.
C16_IndexSafety ==
    \A c \in PassOps :
        /\ Descending(SortOps(c.ops))
        /\ NonOverlapping(c.ops)
           => ApplyOps(c.lines, SortOps(c.ops)) \in SimultaneousResults(c.lines, c.ops)

\* a pass applied two operations that do not overlap, the one nearer the top
\* of the array changing the number of lines
C16_Witness ==
    \E c \in PassOps :
        /\ NonOverlapping(c.ops)
        /\ \E i, j \in 1..Len(c.ops) :
              /\ c.ops[i].start < c.ops[j].start
              /\ Len(c.ops[i].insert) # c.ops[i].end - c.ops[i].start

\* C17: when the read or the write of one master was rejected during a
\* Source->Master pass, the source and every other master are as the whole
\* pass leaves them; when that of one source was rejected during a
\* Master->Source pass, every other source is as the whole pass leaves it.
C17_FailureIsolated ==
    /\ (last.op = "syncFromSource" /\ last.failed # "")
       => \E gen \in [1..MaxGen -> GenIds] :
             \A p \in Paths \ {last.failed} :
                vault[p] = syncFromSource(last.pre, last.path, gen).vault[p]
    /\ (last.op = "syncFromMaster" /\ last.failed # "")
       => \A p \in Paths \ {last.failed} :
             vault[p] = syncFromMaster(last.pre, TypeOfMaster(last.path)).vault[p]

\* C20: in a vault whose masters were empty and were written only by
\* Source->Master passes and by the propagation of renames and deletes, no
\* master has two chunks of the same source path and block id.
C20_NoDuplicateEntries ==
    \A m \in MasterPaths : DistinctKeys(ChunksIn(vault[m]))

\* C23: in every pass the line ranges [start, end) of the operations computed
\* for one document are pairwise disjoint.
C23_OpsDisjoint ==
    \A c \in PassOps : NonOverlapping(c.ops)

\* the header line and the body lines of the chunks of a master that do not
\* belong to path, in order
OtherEntries(text, path) ==
    [i \in 1..Len(OtherChunks(text, path)) |->
        [header |-> Split(text)[OtherChunks(text, path)[i].start],
         bodyLines |-> OtherChunks(text, path)[i].bodyLines]]

\* C22: a Source->Master pass of source S leaves the chunks of every other
\* source in every master as they were, header line, body lines and order,
\* and does not write the master of a type of which S has no callout and
\* whose master has no chunk of S.
C22_OtherChunksKept ==
    \A t \in 1..Len(trackedTypes) :
        (last.op = "syncFromSource" /\ IsFile(last.pre, masterPathForType(trackedTypes[t])))
        => /\ OtherEntries(vault[masterPathForType(trackedTypes[t])], last.path)
                 = OtherEntries(last.pre[masterPathForType(trackedTypes[t])], last.path)
           /\ (/\ OfType(CalloutsIn(vault[last.path]), trackedTypes[t]) = <<>>
               /\ ChunksOf(ChunksIn(last.pre[masterPathForType(trackedTypes[t])]),
                           last.path) = <<>>)
              => masterPathForType(trackedTypes[t]) \notin last.wrote

----------------------------------------------------------------------------
(* Claims about the controller (Spec, FairSpec) *)

\* C1: no user edit is dropped: when the controller has come to rest
\* (no timeout, no notification, no pass left), every user edit has been
\* read by a pass of its path.
C1_NoEditDropped ==
    (timers = {} /\ events = {} /\ tasks = <<>>) => dirty = {}

\* C6: at most one debounce timer per path exists, and it is the registered
\* one; the notifications accepted for a path since its last pass are all
\* served by that one timer; an accepted notification leaves the path with a
\* timer of the full interval; and when the timer comes due the path has been
\* quiet for the full interval, exactly one pass starts, and no timer for
\* the path is left.
C6_DebounceCoalescing ==
    /\ \A p \in Paths :
          /\ Cardinality(SyncTimers(p)) <= 1
          /\ \A t \in SyncTimers(p) : t.id = debounceTimers[p]
          /\ pendingMods[p] > 0 <=> SyncTimers(p) # {}
    /\ (ev.a = "modify" /\ ev.accepted)
          => \A t \in SyncTimers(ev.path) : t.left = SYNC_DEBOUNCE_MS
    /\ ev.a = "fireSync"
          => /\ ev.quiet >= SYNC_DEBOUNCE_MS
             /\ ev.mods >= 1
             /\ ev.started = 1
             /\ SyncTimers(ev.path) = {}

\* two or more notifications of one path were served by one timer, which
\* has just started its pass
C6_Witness ==
    /\ ev.a = "fireSync" /\ ev.mods >= 2 /\ ev.started = 1
    /\ Len(tasks) = 1

\* C7: a path is suppressed whenever an engine write to it is under way or
\* ended less than the suppression window ago, and a notification delivered
\* at such a time schedules nothing.
C7_SuppressedForFullWindow ==
    /\ \A p \in Paths : InWindow(p) => p \in suppressedPaths
    /\ (ev.a = "modify" /\ ev.inWindow) => ~ev.accepted

C18_ShutdownClears ==
    /\ ev.a = "unload"
       => /\ \A t \in timers : t.kind # "sync"
          /\ debounceTimers = [p \in Paths |-> 0]
          /\ suppressedPaths = {}
    /\ ~loaded => (ev.a # "fireSync" /\ \A p \in Paths : SyncTimers(p) = {})

\* the plugin was unloaded while a debounce timeout was pending and a path
\* was suppressed
C18_Witness == ev.a = "unload" /\ ev.mods > 0 /\ ev.inWindow

\* C19: a 'rename' or 'delete' notification starts its pass at once,
\* whether or not the path is suppressed or has a debounce timer, and leaves
\* every timeout and the registry of debounce timers as they were.
C19_MovesBypassDebounce ==
    [][ev'.a \in {"rename", "delete"}
       => /\ timers' = timers
          /\ debounceTimers' = debounceTimers
          /\ Len(tasks') = Len(tasks) + 1
          /\ tasks'[Len(tasks')].fn = (IF ev'.a = "rename" THEN "onRename" ELSE "onDelete")
          /\ tasks'[Len(tasks')].old = ev'.path]_vars

\* a source was renamed or deleted while it was suppressed, and the pass
\* was started
C19_Witness == ev.a \in {"rename", "delete"} /\ ev.inWindow /\ ev.started = 1

\* every master holds, for every source that feeds it, the identifiers and
\* bodies of the callouts the source has now
UpToDate(v) ==
    \A type \in TrackedSet, path \in FeedingPaths :
        IsFile(v, path)
        => IdBodies(ChunksOf(ChunksIn(v[masterPathForType(type)]), path))
              = IdBodies(OfType(CalloutsIn(v[path]), type))

\* C21: in a vault whose masters were up to date, once the passes of the
\* edited sources have all read their source and have completed (nothing
\* pending, nothing in flight), the masters hold the up-to-date chunks of
\* every source, also when the passes were in flight at the same time.
C21_NoLostUpdate ==
    (UpToDate(last.pre) /\ Quiescent /\ dirty = {}) => UpToDate(vault)


====
